---- MODULE Spec2Model ----
(***************************************************************************)
(* File vault backend: deduplicated uploads with reference counting and   *)
(* per-user storage quotas (backend/files).                               *)
(*                                                                         *)
(* The database is modelled at READ COMMITTED with row locks: a           *)
(* transaction takes its locks step by step, buffers its writes and       *)
(* applies them in its commit step; a rollback only releases the locks.   *)
(* Writes to the media directory are not transactional and take effect    *)
(* in the step that performs them.                                        *)
(***************************************************************************)
EXTENDS Integers, FiniteSets, Sequences, TLC

(* ------------------------------ bounds -------------------------------- *)
\* Number of File ids (uuid4 values) the model hands out.
MaxFiles == 3
\* Number of request handlers running concurrently.
NumProcs == 2
\* seconds of clock time the rate limiter is followed for
MaxTime == 2
\* requests received in a run of the rate limiter
MaxRequests == 4

(* -------------------------- program constants ------------------------- *)
MB == 1024 * 1024
MAX_FILE_SIZE == 10 * MB
USER_STORAGE_QUOTA == 10 * MB
max_retries == 3
RATE_LIMIT_CALLS == 2
RATE_LIMIT_SECONDS == 1
BLOCKED_MIME_TYPES ==
  {"application/x-msdownload", "application/x-msdos-program",
   "application/x-executable", "application/x-sharedlib", "application/x-sh",
   "application/x-shellscript", "text/x-python", "text/x-php",
   "application/javascript"}

(* ------------------------------- inputs ------------------------------- *)
Procs == 1..NumProcs
Ids == 1..MaxFiles
Users == {"u1", "u2"}
\* Uploaded byte sequences, named; FileSize gives their length.
Contents == {"a", "b", "max", "empty", "huge"}
MimeTypes == {"text/plain", "application/x-sh"}

FileSize(c) ==
  CASE c = "a" -> 5 * MB
    [] c = "b" -> 6 * MB
    [] c = "max" -> MAX_FILE_SIZE
    [] c = "empty" -> 0
    [] c = "huge" -> MAX_FILE_SIZE + 1

\* SHA-256 of the content: distinct contents have distinct digests.
calculate_file_hash(c) == "sha256:" \o c

Hashes == {calculate_file_hash(c) : c \in Contents}

NoHash == "none"
NoUser == "none"

VARIABLES
  files,      \* committed rows of the File table, by id
  quota,      \* committed rows of the UserStorageQuota table, by user_id
  disk,       \* media directory: the content hash stored under each upload path
  nextId,     \* next unused uuid
  rowLock,    \* File row locks (SELECT ... FOR UPDATE, DELETE), by id
  quotaLock,  \* UserStorageQuota row locks, by user_id
  hashLock,   \* uncommitted insert of an original, per file_hash (unique index)
  pc,         \* position of each request handler
  req,        \* the request a handler serves and its local variables
  budget,     \* requests a handler may still start (-1: no limit)
  cache,      \* django cache: the rate limiter's counters, by cache key
  now,        \* int(time.time()), in seconds since the service started
  tally       \* per user and time window: requests received and admitted

\* The state of the rate limiter.
limiter == <<cache, now, tally>>

vars ==
  <<files, quota, disk, nextId, rowLock, quotaLock, hashLock, pc, req, budget,
    limiter>>

NoFile ==
  [exists |-> FALSE, user_id |-> NoUser, file_hash |-> NoHash, size |-> 0,
   is_reference |-> FALSE, original_file |-> 0, reference_count |-> 0,
   file |-> FALSE, file_type |-> "none"]

NoQuota == [exists |-> FALSE, total_storage_used |-> 0, storage_limit |-> 0]

NoReq ==
  [op |-> "none", user |-> NoUser, content |-> "a", file_type |-> "none",
   fid |-> 0,
   is_duplicate |-> FALSE, original_file |-> 0, attempt |-> 0, newid |-> 0,
   kind |-> "none", size |-> 0, owner |-> NoUser, new_storage |-> 0,
   limit |-> 0, outcome |-> "none", reason |-> "none",
   seen |-> {}, overlap |-> {}, used0 |-> 0,
   count0 |-> 0, time_window |-> 0, request_count |-> 0, warned |-> FALSE]

\* Time windows of the rate limiter and the keys of its counters.
Windows == 0 .. (MaxTime \div RATE_LIMIT_SECONDS)
Keys == Users \X Windows

\* A cache key that is not set (or has expired).
NoEntry == [count |-> 0, expires |-> 0]

NoTally == [asked |-> 0, admitted |-> 0, raced |-> FALSE]

\* The rate limiter before the first request: empty cache, clock at 0.
LimiterIdle ==
  /\ cache = [k \in Keys |-> NoEntry]
  /\ now = 0
  /\ tally = [k \in Keys |-> NoTally]

(* ------------------------------ helpers ------------------------------- *)
\* File.objects.filter(file_hash=h, is_reference=False): ids of originals.
Originals(h) ==
  {i \in Ids : files[i].exists /\ ~files[i].is_reference /\ files[i].file_hash = h}

\* Rows that reference original o through original_file (related_name).
References(o) ==
  {i \in Ids : files[i].exists /\ files[i].is_reference /\ files[i].original_file = o}

\* has_space_for with the size of the new file left out of the comparison.
has_space_for_IgnoringSize(q, file_size) ==
  q.total_storage_used <= q.storage_limit

\* has_space_for with a strict comparison: an exact fit is refused.
has_space_for_BelowLimit(q, file_size) ==
  (q.total_storage_used + file_size) < q.storage_limit

\* UserStorageQuota.has_space_for
has_space_for(q, file_size) ==
  (q.total_storage_used + file_size) <= q.storage_limit

\* get_or_create(user_id=u, defaults={'storage_limit': USER_STORAGE_QUOTA})
get_or_create(qt, u) ==
  IF qt[u].exists THEN qt
  ELSE [qt EXCEPT ![u] = [exists |-> TRUE, total_storage_used |-> 0,
                          storage_limit |-> USER_STORAGE_QUOTA]]

\* End of a transaction (commit or rollback): every lock of p is released.
Release(lock, p) == [k \in DOMAIN lock |-> IF lock[k] = p THEN 0 ELSE lock[k]]

Active(p) == pc[p] # "done"

\* A handler with a request budget keeps the locals of its last request after
\* it has answered, so that the outcomes of concurrent requests can be compared;
\* without a budget only the kind of request and the status code are kept.
Keeps(p) == budget[p] >= 0

Spend(p) == [budget EXCEPT ![p] = IF @ > 0 THEN @ - 1 ELSE @]

Init ==
  /\ files = [i \in Ids |-> NoFile]
  /\ quota = [u \in Users |-> NoQuota]
  /\ disk = [i \in Ids |-> NoHash]
  /\ nextId = 1
  /\ budget = [p \in Procs |-> -1]
  /\ rowLock = [i \in Ids |-> 0]
  /\ quotaLock = [u \in Users |-> 0]
  /\ hashLock = [h \in Hashes |-> 0]
  /\ pc = [p \in Procs |-> "done"]
  /\ req = [p \in Procs |-> NoReq]
  /\ LimiterIdle

(* --------------------------- request set-up --------------------------- *)
\* The record a handler is left with once it has answered with status code.
Answer(p, r, code, why) ==
  IF Keeps(p) THEN [r EXCEPT !.outcome = code, !.reason = why]
  ELSE [NoReq EXCEPT !.op = r.op, !.outcome = code]

\* Handler p starts serving request r; every handler in flight overlaps it.
Begin(p, r) ==
  [q \in Procs |->
     IF q = p
     THEN LET r1 == IF Keeps(p)
                    THEN [r EXCEPT !.overlap = {x \in Procs \ {p} : Active(x)}]
                    ELSE [r EXCEPT !.used0 = 0, !.count0 = 0]
          IN IF r.outcome # "none" THEN Answer(p, r1, r.outcome, r.reason)
             ELSE r1
     ELSE IF Active(q) /\ Keeps(q) THEN [req[q] EXCEPT !.overlap = @ \cup {p}]
     ELSE req[q]]

\* The handler's response.
Respond(p, r, code, why) == [req EXCEPT ![p] = Answer(p, r, code, why)]

(* ------------------------------ upload -------------------------------- *)
\* validate_file with the size limit applied to a file of exactly the limit.
validate_file_AtLimit(c, m) ==
  IF FileSize(c) = 0 THEN "empty"
  ELSE IF FileSize(c) >= MAX_FILE_SIZE THEN "too_large"
  ELSE IF m \in BLOCKED_MIME_TYPES THEN "blocked_type"
  ELSE "ok"

\* validators.validate_file: "ok" or the reason of the rejection.
validate_file(c, m) ==
  IF FileSize(c) = 0 THEN "empty"
  ELSE IF FileSize(c) > MAX_FILE_SIZE THEN "too_large"
  ELSE IF m \in BLOCKED_MIME_TYPES THEN "blocked_type"
  ELSE "ok"

\* The reference_count a request finds on the original it is about, when there
\* is one (kept with the request to compare it with the count it leaves).
CountAtStart(originals) ==
  IF originals = {} THEN 0
  ELSE files[CHOOSE o \in originals : TRUE].reference_count

\* FileViewSet.create up to the end of serializer.is_valid(): validate_file,
\* then FileSerializer.validate (hash, dedup lookup, unlocked quota check).
UploadValidate(p) ==
  /\ pc[p] = "done"
  /\ budget[p] # 0
  /\ budget' = Spend(p)
  /\ UNCHANGED limiter
  /\ nextId <= MaxFiles
  /\ \E u \in Users, c \in Contents, m \in MimeTypes :
       LET h == calculate_file_hash(c)
           existing == Originals(h)
           r0 == [NoReq EXCEPT !.op = "upload", !.user = u, !.content = c,
                               !.file_type = m, !.size = FileSize(c),
                               !.used0 = quota[u].total_storage_used,
                               !.count0 = CountAtStart(existing)]
           qt == get_or_create(quota, u)
       IN
       IF validate_file(c, m) # "ok"
       THEN /\ req' = Begin(p, [r0 EXCEPT !.outcome = "400",
                                          !.reason = validate_file(c, m)])
            /\ UNCHANGED <<pc, quota>>
       ELSE IF ~has_space_for(qt[u], FileSize(c))
       THEN /\ req' = Begin(p, [r0 EXCEPT !.outcome = "400", !.reason = "quota"])
            /\ quota' = qt
            /\ UNCHANGED pc
       ELSE /\ quota' = qt
            /\ IF existing # {}
               THEN /\ req' = Begin(p, [r0 EXCEPT !.is_duplicate = TRUE,
                            !.original_file = CHOOSE o \in existing : TRUE])
                    /\ pc' = [pc EXCEPT ![p] = "u_lockorig"]
               ELSE /\ req' = Begin(p, r0)
                    /\ pc' = [pc EXCEPT ![p] = "n_lockquota"]
  /\ UNCHANGED <<files, disk, nextId, rowLock, quotaLock, hashLock>>

\* create, duplicate branch: File.objects.select_for_update().get(pk=original)
RefLockOriginal(p) ==
  /\ pc[p] = "u_lockorig"
  /\ LET o == req[p].original_file IN
     IF ~files[o].exists
     THEN \* File.DoesNotExist is not handled: internal error
          /\ req' = Respond(p, req[p], "500", "original_gone")
          /\ pc' = [pc EXCEPT ![p] = "done"]
          /\ UNCHANGED rowLock
     ELSE /\ rowLock[o] = 0
          /\ rowLock' = [rowLock EXCEPT ![o] = p]
          /\ pc' = [pc EXCEPT ![p] = "r_lockquota"]
          /\ UNCHANGED req
  /\ UNCHANGED <<files, quota, disk, nextId, quotaLock, hashLock,
               budget, limiter>>

\* The account read without select_for_update(): no row lock is taken.
LockQuotaRow_Unlocked(p, u) == quotaLock

\* UserStorageQuota.objects.select_for_update(): the row lock on u's account.
LockQuotaRow(p, u) == [quotaLock EXCEPT ![u] = p]

\* select_for_update().get_or_create(user_id) followed by the locked
\* has_space_for check; a failed check raises and rolls the transaction back.
LockQuota(p, from, to) ==
  /\ pc[p] = from
  /\ LET u == req[p].user
         qt == get_or_create(quota, u)
     IN
     /\ quotaLock[u] = 0
     /\ IF has_space_for(qt[u], req[p].size)
        THEN /\ quotaLock' = LockQuotaRow(p, u)
             /\ pc' = [pc EXCEPT ![p] = to]
             /\ UNCHANGED <<req, rowLock>>
        ELSE /\ req' = Respond(p, req[p], "400", "quota")
             /\ pc' = [pc EXCEPT ![p] = "done"]
             /\ rowLock' = Release(rowLock, p)
             /\ UNCHANGED quotaLock
  /\ UNCHANGED <<files, quota, disk, nextId, hashLock, budget, limiter>>

RefLockQuota(p) == LockQuota(p, "r_lockquota", "r_commit")

NewLockQuota(p) == LockQuota(p, "n_lockquota", "n_insert")

\* The usage update left out: the upload is not charged.
AddUsage_Free(qt, u, file_size) == qt

\* The usage update without its filter on the user: every account is charged.
AddUsage_Everyone(qt, u, file_size) ==
  [x \in Users |-> [qt[x] EXCEPT !.total_storage_used = @ + file_size]]

\* total_storage_used = F('total_storage_used') + file_size
AddUsage(qt, u, file_size) ==
  [qt EXCEPT ![u].total_storage_used = @ + file_size]

\* The count update left out.
IncrementRef_Unchanged(fs, o) == fs

\* reference_count = F('reference_count') + 1
IncrementRef(fs, o) == [fs EXCEPT ![o].reference_count = @ + 1]

\* Reference branch, rest of the transaction: the reference row is inserted,
\* the original's count and the owner's usage are updated, and it commits.
RefCommit(p) ==
  /\ pc[p] = "r_commit"
  /\ nextId <= MaxFiles
  /\ LET o == req[p].original_file
         u == req[p].user
         row == [exists |-> TRUE, user_id |-> u,
                 file_hash |-> calculate_file_hash(req[p].content),
                 size |-> req[p].size, is_reference |-> TRUE,
                 original_file |-> o, reference_count |-> 1, file |-> FALSE,
                 file_type |-> req[p].file_type]
     IN
     /\ files' = IncrementRef([files EXCEPT ![nextId] = row], o)
     /\ quota' = AddUsage(quota, u, req[p].size)
     /\ req' = Respond(p, [req[p] EXCEPT !.newid = nextId], "201", "reference")
  /\ nextId' = nextId + 1
  /\ pc' = [pc EXCEPT ![p] = "done"]
  /\ rowLock' = Release(rowLock, p)
  /\ quotaLock' = Release(quotaLock, p)
  /\ UNCHANGED <<disk, hashLock, budget, limiter>>

\* File.save -> full_clean -> validate_constraints on unique_original_file_hash:
\* a committed original with this hash makes the save raise ValidationError.
ConstraintViolated(h) == Originals(h) # {}

\* The INSERT of an original without the partial unique index.
UniqueConflict_NoIndex(h) == FALSE

\* Outcome of the INSERT of an original with hash h once no other insert of h
\* is pending: the partial unique index rejects a second original.
UniqueConflict(h) == Originals(h) # {}

\* The row File.objects.create inserts for novel content.
OriginalRow(u, c, m) ==
  [exists |-> TRUE, user_id |-> u, file_hash |-> calculate_file_hash(c),
   size |-> FileSize(c), is_reference |-> FALSE, original_file |-> 0,
   reference_count |-> 1, file |-> TRUE, file_type |-> m]

\* except IntegrityError without the test of the attempt: always the fallback.
AfterIntegrityError_Unbounded(p) ==
  /\ pc' = [pc EXCEPT ![p] = "f_lockorig"]
  /\ UNCHANGED req

\* except IntegrityError: the transaction is rolled back; below the last
\* attempt the upload goes on as a reference, on the last one it re-raises.
AfterIntegrityError(p) ==
  IF req[p].attempt < max_retries - 1
  THEN /\ pc' = [pc EXCEPT ![p] = "f_lockorig"]
       /\ UNCHANGED req
  ELSE /\ pc' = [pc EXCEPT ![p] = "done"]
       /\ req' = Respond(p, req[p], "500", "max_retries")

\* File.objects.create(**validated_data) for novel content: full_clean, then
\* the FileField writes the bytes under a fresh path, then the INSERT.
NewInsert(p) ==
  /\ pc[p] = "n_insert"
  /\ nextId <= MaxFiles
  /\ LET h == calculate_file_hash(req[p].content) IN
     IF ConstraintViolated(h)
     THEN \* django ValidationError, not an IntegrityError: it leaves create
          \* and custom_exception_handler answers 400
          /\ req' = Respond(p, req[p], "400", "constraint_validation")
          /\ pc' = [pc EXCEPT ![p] = "done"]
          /\ quotaLock' = Release(quotaLock, p)
          /\ UNCHANGED <<disk, nextId, hashLock>>
     ELSE /\ disk' = [disk EXCEPT ![nextId] = h]
          /\ nextId' = nextId + 1
          /\ req' = [req EXCEPT ![p].newid = nextId]
          /\ IF hashLock[h] = 0
             THEN /\ hashLock' = [hashLock EXCEPT ![h] = p]
                  /\ pc' = [pc EXCEPT ![p] = "n_commit"]
             ELSE \* another uncommitted insert of h: the INSERT waits for it
                  /\ pc' = [pc EXCEPT ![p] = "n_blocked"]
                  /\ UNCHANGED hashLock
          /\ UNCHANGED quotaLock
  /\ UNCHANGED <<files, quota, rowLock, budget, limiter>>

\* The waiting INSERT resumes when the other transaction has ended.
NewInsertResume(p) ==
  /\ pc[p] = "n_blocked"
  /\ LET h == calculate_file_hash(req[p].content) IN
     /\ hashLock[h] = 0
     /\ IF UniqueConflict(h)
        THEN /\ AfterIntegrityError(p)
             /\ quotaLock' = Release(quotaLock, p)
             /\ UNCHANGED hashLock
        ELSE /\ hashLock' = [hashLock EXCEPT ![h] = p]
             /\ pc' = [pc EXCEPT ![p] = "n_commit"]
             /\ UNCHANGED <<req, quotaLock>>
  /\ UNCHANGED <<files, quota, disk, nextId, rowLock, budget, limiter>>

\* Novel branch, rest of the transaction: usage update and commit.
NewCommit(p) ==
  /\ pc[p] = "n_commit"
  /\ LET u == req[p].user IN
     /\ files' = [files EXCEPT ![req[p].newid] = OriginalRow(u, req[p].content,
                                                           req[p].file_type)]
     /\ quota' = AddUsage(quota, u, req[p].size)
  /\ req' = Respond(p, req[p], "201", "original")
  /\ pc' = [pc EXCEPT ![p] = "done"]
  /\ quotaLock' = Release(quotaLock, p)
  /\ hashLock' = Release(hashLock, p)
  /\ UNCHANGED <<disk, nextId, rowLock, budget, limiter>>

\* Fallback after the race: select_for_update().get(file_hash=h,
\* is_reference=False); File.DoesNotExist continues with the next attempt.
FallbackLockOriginal(p) ==
  /\ pc[p] = "f_lockorig"
  /\ LET existing == Originals(calculate_file_hash(req[p].content)) IN
     IF existing = {}
     THEN /\ req' = [req EXCEPT ![p].attempt = @ + 1]
          /\ pc' = [pc EXCEPT ![p] = "n_lockquota"]
          /\ UNCHANGED rowLock
     ELSE LET o == CHOOSE i \in existing : TRUE IN
          /\ rowLock[o] = 0
          /\ rowLock' = [rowLock EXCEPT ![o] = p]
          /\ req' = [req EXCEPT ![p].original_file = o]
          /\ pc' = [pc EXCEPT ![p] = "r_lockquota"]
  /\ UNCHANGED <<files, quota, disk, nextId, quotaLock, hashLock,
               budget, limiter>>

(* ------------------------------ delete -------------------------------- *)
\* FileViewSet.destroy is entered for file id f by the user of the request.
DeleteStart(p) ==
  /\ pc[p] = "done"
  /\ budget[p] # 0
  /\ budget' = Spend(p)
  /\ UNCHANGED limiter
  /\ \E u \in Users, f \in Ids :
       req' = Begin(p, [NoReq EXCEPT !.op = "delete", !.user = u, !.fid = f,
                                     !.used0 = quota[u].total_storage_used,
                                     !.count0 = CountAtStart(
                                       {IF files[f].is_reference
                                           /\ files[f].original_file # 0
                                        THEN files[f].original_file ELSE f}
                                         \cap {i \in Ids : files[i].exists})])
  /\ pc' = [pc EXCEPT ![p] = "d_lock"]
  /\ UNCHANGED <<files, quota, disk, nextId, rowLock, quotaLock, hashLock>>

\* The queryset destroy reads the row from: File.objects, by primary key.
DestroyFinds(f, u) == files[f].exists

\* File.objects.select_for_update().select_related('original_file').get(pk=f)
DeleteLock(p) ==
  /\ pc[p] = "d_lock"
  /\ LET f == req[p].fid IN
     IF ~DestroyFinds(f, req[p].user)
     THEN \* File.DoesNotExist -> Http404
          /\ req' = Respond(p, req[p], "404", "not_found")
          /\ pc' = [pc EXCEPT ![p] = "done"]
          /\ UNCHANGED rowLock
     ELSE /\ rowLock[f] = 0
          /\ rowLock' = [rowLock EXCEPT ![f] = p]
          /\ req' = [req EXCEPT ![p].owner = files[f].user_id,
                                ![p].size = files[f].size]
          /\ pc' = [pc EXCEPT ![p] =
                      IF files[f].is_reference /\ files[f].original_file # 0
                      THEN "d_ref" ELSE "d_orig"]
  /\ UNCHANGED <<files, quota, disk, nextId, quotaLock, hashLock,
               budget, limiter>>

\* CheckConstraint reference_count_non_negative, evaluated by the UPDATE.
CountAllowed(n) == n >= 0

\* Reference branch: lock the original, reference_count = F(..) - 1, then
\* instance.delete() of the reference row.
DeleteRef(p) ==
  /\ pc[p] = "d_ref"
  /\ LET o == files[req[p].fid].original_file IN
     /\ rowLock[o] = 0
     /\ IF CountAllowed(files[o].reference_count - 1)
        THEN /\ rowLock' = [rowLock EXCEPT ![o] = p]
             /\ req' = [req EXCEPT ![p].kind = "ref", ![p].original_file = o]
             /\ pc' = [pc EXCEPT ![p] = "d_quota"]
        ELSE \* IntegrityError: rolled back, internal error
             /\ rowLock' = Release(rowLock, p)
             /\ req' = Respond(p, req[p], "500", "count_negative")
             /\ pc' = [pc EXCEPT ![p] = "done"]
  /\ UNCHANGED <<files, quota, disk, nextId, quotaLock, hashLock,
               budget, limiter>>

\* The DELETE of File.delete cascades to the rows with original_file = f and
\* needs their row locks.
CascadeFree(f) == \A i \in References(f) : rowLock[i] = 0

LockCascade(p, f) ==
  [i \in Ids |-> IF i \in References(f) THEN p ELSE rowLock[i]]

\* File.delete of an original: os.path.isfile(self.file.path) fails and the
\* warning "Physical file not found for deletion" is logged.
MediaMissing(f) ==
  ~files[f].is_reference /\ ~(files[f].file /\ disk[f] # NoHash)

\* Original branch: a count above 1 is decremented and the row kept; otherwise
\* File.delete removes the physical file if it is there (logging a warning if
\* it is not), then the row (with its cascade).
DeleteOrig(p) ==
  /\ pc[p] = "d_orig"
  /\ LET f == req[p].fid IN
     IF files[f].reference_count > 1
     THEN /\ req' = [req EXCEPT ![p].kind = "dec"]
          /\ pc' = [pc EXCEPT ![p] = "d_quota"]
          /\ UNCHANGED <<disk, rowLock>>
     ELSE /\ disk' = IF ~files[f].is_reference /\ files[f].file
                     THEN [disk EXCEPT ![f] = NoHash] ELSE disk
          /\ req' = [req EXCEPT ![p].kind = "del",
                                ![p].warned = MediaMissing(f)]
          /\ IF CascadeFree(f)
             THEN /\ rowLock' = LockCascade(p, f)
                  /\ pc' = [pc EXCEPT ![p] = "d_quota"]
             ELSE /\ pc' = [pc EXCEPT ![p] = "d_cascade"]
                  /\ UNCHANGED rowLock
  /\ UNCHANGED <<files, quota, nextId, quotaLock, hashLock, budget, limiter>>

\* The cascading DELETE resumes once the referencing rows are unlocked.
DeleteCascade(p) ==
  /\ pc[p] = "d_cascade"
  /\ CascadeFree(req[p].fid)
  /\ rowLock' = LockCascade(p, req[p].fid)
  /\ pc' = [pc EXCEPT ![p] = "d_quota"]
  /\ UNCHANGED <<files, quota, disk, nextId, quotaLock, hashLock, req,
               budget, limiter>>

\* update_storage_usage that leaves the used bytes as they are.
NewStorage_Unchanged(used, size_delta) == used

\* update_storage_usage: the new value computed from the row as read.
NewStorage(used, size_delta) ==
  IF used + size_delta < 0 THEN 0 ELSE used + size_delta

\* update_storage_usage(user_id, -file_size), first half: get_or_create
\* without a lock and the computation of the new value.
DeleteUsage(p) ==
  /\ pc[p] = "d_quota"
  /\ LET u == req[p].user
         qt == get_or_create(quota, u)
     IN
     /\ quota[u].exists \/ quotaLock[u] = 0
     /\ quotaLock' = IF quota[u].exists THEN quotaLock
                     ELSE [quotaLock EXCEPT ![u] = p]
     /\ req' = [req EXCEPT
                  ![p].new_storage = NewStorage(qt[u].total_storage_used,
                                                -req[p].size),
                  ![p].limit = qt[u].storage_limit]
  /\ pc' = [pc EXCEPT ![p] = "d_commit"]
  /\ UNCHANGED <<files, quota, disk, nextId, rowLock, hashLock,
               budget, limiter>>

\* The rows after a delete that does not touch the original's count.
DeleteRows_CountKept(fs, f, kind, o) ==
  CASE kind = "ref" -> [fs EXCEPT ![f] = NoFile]
    [] kind = "dec" -> fs
    [] kind = "del" ->
         [i \in Ids |->
            IF i = f \/ (fs[i].exists /\ fs[i].is_reference
                         /\ fs[i].original_file = f)
            THEN NoFile ELSE fs[i]]

\* The File rows as the delete transaction leaves them.
DeleteRows(fs, f, kind, o) ==
  CASE kind = "ref" ->
         [fs EXCEPT ![f] = NoFile, ![o].reference_count = @ - 1]
    [] kind = "dec" ->
         [fs EXCEPT ![f].reference_count = @ - 1]
    [] kind = "del" ->
         [i \in Ids |->
            IF i = f \/ (fs[i].exists /\ fs[i].is_reference
                         /\ fs[i].original_file = f)
            THEN NoFile ELSE fs[i]]

\* update_storage_usage, second half: quota.save() writes the computed value;
\* then the transaction commits and destroy answers 204.
DeleteCommit(p) ==
  /\ pc[p] = "d_commit"
  /\ LET u == req[p].user IN
     /\ quotaLock[u] \in {0, p}
     /\ quota' = [quota EXCEPT ![u] =
                    [exists |-> TRUE, total_storage_used |-> req[p].new_storage,
                     storage_limit |-> req[p].limit]]
  /\ files' = DeleteRows(files, req[p].fid, req[p].kind, req[p].original_file)
  /\ req' = Respond(p, req[p], "204", req[p].kind)
  /\ pc' = [pc EXCEPT ![p] = "done"]
  /\ rowLock' = Release(rowLock, p)
  /\ quotaLock' = Release(quotaLock, p)
  /\ UNCHANGED <<disk, nextId, hashLock, budget, limiter>>

(* ------------------------- deadlock detection ------------------------- *)
\* The handlers that hold a lock the next step of p is waiting for.
WaitsFor(p) ==
  LET r == req[p]
      h == calculate_file_hash(r.content)
      rows ==
        CASE pc[p] = "u_lockorig" ->
               IF files[r.original_file].exists THEN {r.original_file} ELSE {}
          [] pc[p] = "f_lockorig" -> Originals(h)
          [] pc[p] = "d_lock" -> IF files[r.fid].exists THEN {r.fid} ELSE {}
          [] pc[p] = "d_ref" -> {files[r.fid].original_file}
          [] pc[p] = "d_cascade" -> References(r.fid)
          [] OTHER -> {}
      accounts ==
        CASE pc[p] \in {"r_lockquota", "n_lockquota", "d_commit"} -> {r.user}
          [] pc[p] = "d_quota" /\ ~quota[r.user].exists -> {r.user}
          [] OTHER -> {}
      slots == IF pc[p] = "n_blocked" THEN {h} ELSE {}
  IN ({rowLock[i] : i \in rows} \cup {quotaLock[u] : u \in accounts}
        \cup {hashLock[x] : x \in slots}) \ {0, p}

\* p is on a cycle of the waits-for graph.
RECURSIVE Reach(_, _)
Reach(S, n) ==
  IF n = 0 THEN S
  ELSE Reach(S \cup UNION {WaitsFor(q) : q \in S}, n - 1)

Deadlocked(p) == WaitsFor(p) # {} /\ p \in Reach(WaitsFor(p), NumProcs)

\* The database aborts one transaction of a deadlock: it is rolled back and
\* the error (an OperationalError) leaves the handler as an internal error.
DeadlockAbort(p) ==
  /\ Deadlocked(p)
  /\ req' = Respond(p, req[p], "500", "deadlock")
  /\ pc' = [pc EXCEPT ![p] = "done"]
  /\ rowLock' = Release(rowLock, p)
  /\ quotaLock' = Release(quotaLock, p)
  /\ hashLock' = Release(hashLock, p)
  /\ UNCHANGED <<files, quota, disk, nextId, budget, limiter>>

(* --------------------------- specification ---------------------------- *)
Next ==
  \E p \in Procs :
    \/ UploadValidate(p)
    \/ RefLockOriginal(p)
    \/ RefLockQuota(p)
    \/ RefCommit(p)
    \/ NewLockQuota(p)
    \/ NewInsert(p)
    \/ NewInsertResume(p)
    \/ NewCommit(p)
    \/ FallbackLockOriginal(p)
    \/ DeleteStart(p)
    \/ DeleteLock(p)
    \/ DeleteRef(p)
    \/ DeleteOrig(p)
    \/ DeleteCascade(p)
    \/ DeleteUsage(p)
    \/ DeleteCommit(p)
    \/ DeadlockAbort(p)

Spec == Init /\ [][Next]_vars

(* ---------------- one request per handler, outcomes kept -------------- *)
\* Stores the service reaches by sequential requests, used as the starting
\* points of the runs in which every handler serves exactly one request.
FileRow(u, c, ref, o, n) ==
  [exists |-> TRUE, user_id |-> u, file_hash |-> calculate_file_hash(c),
   size |-> FileSize(c), is_reference |-> ref, original_file |-> o,
   reference_count |-> n, file |-> ~ref, file_type |-> "text/plain"]

Account(used) ==
  [exists |-> TRUE, total_storage_used |-> used,
   storage_limit |-> USER_STORAGE_QUOTA]

EmptyFiles == [i \in Ids |-> NoFile]
EmptyDisk == [i \in Ids |-> NoHash]

\* nothing uploaded yet
StoreEmpty ==
  [files |-> EmptyFiles, quota |-> [u \in Users |-> NoQuota],
   disk |-> EmptyDisk, nextId |-> 1]

\* u1 uploaded "a"
StoreOriginal ==
  [files |-> [EmptyFiles EXCEPT ![1] = FileRow("u1", "a", FALSE, 0, 1)],
   quota |-> [u \in Users |-> IF u = "u1" THEN Account(5 * MB) ELSE NoQuota],
   disk |-> [EmptyDisk EXCEPT ![1] = calculate_file_hash("a")],
   nextId |-> 2]

\* u1 uploaded "a", then u2 uploaded "a"
StoreShared ==
  [files |-> [EmptyFiles EXCEPT ![1] = FileRow("u1", "a", FALSE, 0, 2),
                                ![2] = FileRow("u2", "a", TRUE, 1, 1)],
   quota |-> [u \in Users |-> Account(5 * MB)],
   disk |-> [EmptyDisk EXCEPT ![1] = calculate_file_hash("a")],
   nextId |-> 3]

\* as StoreShared, then u1 deleted file 1 (destroy kept the row)
StoreKeptOriginal ==
  [files |-> [EmptyFiles EXCEPT ![1] = FileRow("u1", "a", FALSE, 0, 1),
                                ![2] = FileRow("u2", "a", TRUE, 1, 1)],
   quota |-> [u \in Users |-> IF u = "u1" THEN Account(0) ELSE Account(5 * MB)],
   disk |-> [EmptyDisk EXCEPT ![1] = calculate_file_hash("a")],
   nextId |-> 3]

Stores == {StoreEmpty, StoreOriginal, StoreShared, StoreKeptOriginal}

InitOnce ==
  /\ \E s \in Stores :
       /\ files = s.files
       /\ quota = s.quota
       /\ disk = s.disk
       /\ nextId = s.nextId
  /\ budget = [p \in Procs |-> 1]
  /\ rowLock = [i \in Ids |-> 0]
  /\ quotaLock = [u \in Users |-> 0]
  /\ hashLock = [h \in Hashes |-> 0]
  /\ pc = [p \in Procs |-> "done"]
  /\ req = [p \in Procs |-> NoReq]
  /\ LimiterIdle

SpecOnce == InitOnce /\ [][Next]_vars

(* ------------------------------- reads -------------------------------- *)
\* get_queryset without the user_id filter.
get_queryset_Unfiltered(fs, u) == {i \in Ids : fs[i].exists}

\* FileViewSet.get_queryset: queryset.filter(user_id=user_id) over the rows fs.
get_queryset(fs, u) == {i \in Ids : fs[i].exists /\ fs[i].user_id = u}

\* ModelViewSet.retrieve: get_object() on get_queryset; seen holds the id of
\* the row whose fields the response carries.
retrieve(fs, u, f) ==
  IF f \in get_queryset(fs, u)
  THEN [outcome |-> "200", reason |-> "found", seen |-> {f}]
  ELSE [outcome |-> "404", reason |-> "not_found", seen |-> {}]

\* download without the check that the physical file exists.
download_Unchecked(fs, dk, u, f) ==
  IF f \notin get_queryset(fs, u)
  THEN [outcome |-> "404", reason |-> "not_found", seen |-> {},
        content_type |-> "none"]
  ELSE LET inst == IF fs[f].is_reference /\ fs[f].original_file # 0
                   THEN fs[f].original_file ELSE f
       IN IF ~fs[inst].exists
          THEN [outcome |-> "500", reason |-> "download_failed", seen |-> {},
                content_type |-> "none"]
          ELSE [outcome |-> "200", reason |-> "found", seen |-> {inst},
                content_type |-> fs[inst].file_type]

\* FileViewSet.download over the rows fs and the media directory dk: a
\* reference is served from its original; seen holds the id of the row whose
\* bytes, filename and type the response carries, content_type the
\* file_type of that row.
download(fs, dk, u, f) ==
  IF f \notin get_queryset(fs, u)
  THEN [outcome |-> "404", reason |-> "not_found", seen |-> {},
        content_type |-> "none"]
  ELSE LET inst == IF fs[f].is_reference /\ fs[f].original_file # 0
                   THEN fs[f].original_file ELSE f
       IN IF ~fs[inst].exists
          THEN [outcome |-> "500", reason |-> "download_failed", seen |-> {},
                content_type |-> "none"]
          ELSE IF ~fs[inst].file \/ dk[inst] = NoHash
          THEN [outcome |-> "404", reason |-> "not_on_storage", seen |-> {},
                content_type |-> "none"]
          ELSE [outcome |-> "200", reason |-> "found", seen |-> {inst},
                content_type |-> fs[inst].file_type]

\* A read request is served in one step from the committed rows.
Read(p, r, ans) ==
  /\ pc[p] = "done"
  /\ budget[p] # 0
  /\ budget' = Spend(p)
  /\ UNCHANGED limiter
  /\ req' = Begin(p, [r EXCEPT !.outcome = ans.outcome, !.reason = ans.reason,
                               !.seen = ans.seen])
  /\ UNCHANGED <<files, quota, disk, nextId, rowLock, quotaLock, hashLock, pc>>

\* FileViewSet.list
List(p) ==
  \E u \in Users :
    Read(p, [NoReq EXCEPT !.op = "list", !.user = u],
         [outcome |-> "200", reason |-> "found", seen |-> get_queryset(files, u)])

\* FileViewSet.retrieve
Retrieve(p) ==
  \E u \in Users, f \in Ids :
    Read(p, [NoReq EXCEPT !.op = "retrieve", !.user = u, !.fid = f],
         retrieve(files, u, f))

\* FileViewSet.download
Download(p) ==
  \E u \in Users, f \in Ids :
    Read(p, [NoReq EXCEPT !.op = "download", !.user = u, !.fid = f,
                          !.file_type = download(files, disk, u, f).content_type],
         download(files, disk, u, f))

NextWithReads ==
  \/ Next
  \/ \E p \in Procs : List(p) \/ Retrieve(p) \/ Download(p)

SpecReads == InitOnce /\ [][NextWithReads]_vars

(* ---------------------------- rate limiting ---------------------------- *)
\* time_window = current_time // seconds
time_window(t) == t \div RATE_LIMIT_SECONDS

\* A counter that every user shares.
cache_key_AllUsers(u, w) == <<"u1", w>>

\* A counter that is not bound to a time window.
cache_key_AllWindows(u, w) == <<u, 0>>

\* cache_key = f"{RATE_LIMIT_CACHE_KEY_PREFIX}:{user_id}:{time_window}"
cache_key(u, w) == <<u, w>>

\* cache.get(cache_key, 0) at clock time t: an expired key reads as unset.
cache_get(c, k, t) == IF c[k].expires > t THEN c[k].count ELSE 0

\* cache.set(cache_key, v, timeout=seconds * 2) at clock time t
cache_set(c, k, v, t) ==
  [c EXCEPT ![k] = [count |-> v, expires |-> t + 2 * RATE_LIMIT_SECONDS]]

\* The limit applied one call late.
throttled_AboveLimit(request_count) == request_count > RATE_LIMIT_CALLS

\* if request_count >= calls: the request is answered 429
throttled(request_count) == request_count >= RATE_LIMIT_CALLS

\* Requests the rate limiter has received so far.
RECURSIVE Asked(_)
Asked(K) ==
  IF K = {} THEN 0
  ELSE LET k == CHOOSE x \in K : TRUE IN tally[k].asked + Asked(K \ {k})

\* wrapped_method up to cache.get: the clock is read once, the key is built
\* from the user and the time window, and the counter is read.
RateEnter(p, r) ==
  /\ pc[p] = "done"
  /\ Asked(Keys) < MaxRequests
  /\ budget' = Spend(p)
  /\ LET w == time_window(now)
         busy == {q \in Procs \ {p} : /\ pc[q] = "rl_check"
                                      /\ req[q].user = r.user
                                      /\ req[q].time_window = w}
     IN
     /\ req' = Begin(p, [r EXCEPT !.time_window = w,
                           !.request_count =
                              cache_get(cache, cache_key(r.user, w), now)])
     /\ tally' = [tally EXCEPT ![<<r.user, w>>] =
                    [asked |-> @.asked + 1, admitted |-> @.admitted,
                     raced |-> @.raced \/ busy # {}]]
  /\ pc' = [pc EXCEPT ![p] = "rl_check"]
  /\ UNCHANGED <<files, quota, disk, nextId, rowLock, quotaLock, hashLock,
                 cache, now>>

\* @rate_limit_method() on list, retrieve and download
RatedList(p) ==
  \E u \in Users : RateEnter(p, [NoReq EXCEPT !.op = "list", !.user = u])

RatedRetrieve(p) ==
  \E u \in Users, f \in Ids :
    RateEnter(p, [NoReq EXCEPT !.op = "retrieve", !.user = u, !.fid = f])

RatedDownload(p) ==
  \E u \in Users, f \in Ids :
    RateEnter(p, [NoReq EXCEPT !.op = "download", !.user = u, !.fid = f])

\* method_func(self, request, ...): the answer of the decorated method.
method_func(r) ==
  CASE r.op = "list" -> [outcome |-> "200", reason |-> "found",
                         seen |-> get_queryset(files, r.user)]
    [] r.op = "retrieve" -> retrieve(files, r.user, r.fid)
    [] r.op = "download" -> download(files, disk, r.user, r.fid)

\* wrapped_method from the limit check on: 429 at the limit, otherwise the
\* counter is set to the value read plus one and the method is called.
RateCheck(p) ==
  /\ pc[p] = "rl_check"
  /\ LET r == req[p]
         k == cache_key(r.user, r.time_window)
     IN
     IF throttled(r.request_count)
     THEN /\ req' = Respond(p, r, "429", "rate_limit")
          /\ UNCHANGED <<cache, tally>>
     ELSE /\ cache' = cache_set(cache, k, r.request_count + 1, now)
          /\ tally' = [tally EXCEPT ![<<r.user, r.time_window>>].admitted = @ + 1]
          /\ LET ans == method_func(r) IN
             req' = Respond(p, [r EXCEPT !.seen = ans.seen],
                            ans.outcome, ans.reason)
  /\ pc' = [pc EXCEPT ![p] = "done"]
  /\ UNCHANGED <<files, quota, disk, nextId, rowLock, quotaLock, hashLock,
                 budget, now>>

\* The clock moves on by a second; keys past their timeout are gone.
Tick ==
  /\ now < MaxTime
  /\ now' = now + 1
  /\ cache' = [k \in Keys |-> IF cache[k].expires > now + 1 THEN cache[k]
                              ELSE NoEntry]
  /\ UNCHANGED <<files, quota, disk, nextId, rowLock, quotaLock, hashLock,
                 pc, req, budget, tally>>

NextRate ==
  \/ \E p \in Procs :
       \/ RatedList(p)
       \/ RatedRetrieve(p)
       \/ RatedDownload(p)
       \/ RateCheck(p)
  \/ Tick

\* The limiter is followed over the store with a shared original.
InitRate ==
  /\ files = StoreShared.files
  /\ quota = StoreShared.quota
  /\ disk = StoreShared.disk
  /\ nextId = StoreShared.nextId
  /\ budget = [p \in Procs |-> -1]
  /\ rowLock = [i \in Ids |-> 0]
  /\ quotaLock = [u \in Users |-> 0]
  /\ hashLock = [h \in Hashes |-> 0]
  /\ pc = [p \in Procs |-> "done"]
  /\ req = [p \in Procs |-> NoReq]
  /\ LimiterIdle

SpecRate == InitRate /\ [][NextRate]_vars

(* ------------------------------- claims ------------------------------- *)
RECURSIVE SumSizes(_)
SumSizes(S) ==
  IF S = {} THEN 0
  ELSE LET i == CHOOSE x \in S : TRUE IN files[i].size + SumSizes(S \ {i})

\* Live File rows (originals and references) of owner u / with hash h.
OwnedBy(u) == {i \in Ids : files[i].exists /\ files[i].user_id = u}
WithHash(h) == {i \in Ids : files[i].exists /\ files[i].file_hash = h}

Quiescent == \A p \in Procs : pc[p] = "done"

\* C1: in every committed state each owner's total_storage_used equals the
\* sum of size over the File rows that exist with that user_id.
C1_UsedEqualsLiveSum ==
  \A u \in Users : quota[u].total_storage_used = SumSizes(OwnedBy(u))

\* C2: in every committed state the reference_count of each original equals
\* the number of live File rows (of all owners) with its file_hash.
C2_CountEqualsLiveRows ==
  \A i \in Ids :
    (files[i].exists /\ ~files[i].is_reference)
      => files[i].reference_count = Cardinality(WithHash(files[i].file_hash))

\* C3: a delete of file f by a user who does not own f's row ends NotFound
\* and leaves the File rows, the counts, the media files and every quota
\* account unchanged.
C3_ForeignDeleteIsNotFound ==
  [][\A p \in Procs :
       (/\ pc[p] = "d_lock"
        /\ files[req[p].fid].exists
        /\ files[req[p].fid].user_id # req[p].user
        /\ pc'[p] # pc[p])
       => (/\ pc'[p] = "done"
           /\ req'[p].outcome = "404"
           /\ UNCHANGED <<files, quota, disk>>)]_vars

\* C4: when a delete of f issued by f's owner answers success, the row f no
\* longer exists (so later get, download and delete of f find nothing),
\* whether or not other rows share the content.
C4_OwnerDeleteRemovesRow ==
  [][\A p \in Procs :
       (/\ pc[p] = "d_commit"
        /\ req[p].owner = req[p].user
        /\ pc'[p] = "done"
        /\ req'[p].outcome = "204")
       => ~files'[req[p].fid].exists]_vars

\* C5: in every committed state every quota account satisfies
\* 0 <= total_storage_used <= storage_limit.
C5_UsedWithinLimit ==
  \A u \in Users :
    quota[u].exists =>
      /\ 0 <= quota[u].total_storage_used
      /\ quota[u].total_storage_used <= quota[u].storage_limit

\* An account filled to its limit by uploads, and one emptied again by a
\* delete while another owner still holds rows.
C5_Witness ==
  /\ quota["u1"].exists
  /\ quota["u1"].total_storage_used = quota["u1"].storage_limit
  /\ Cardinality(OwnedBy("u1")) = 2
  /\ \E p \in Procs : req[p].op = "delete" /\ req[p].outcome = "204"

\* C6: no committed state holds an original row with reference_count = 0:
\* the delete that takes the count to 0 removes the row and the media file.
C6_NoZeroCountOriginal ==
  \A i \in Ids :
    (files[i].exists /\ ~files[i].is_reference) => files[i].reference_count # 0

\* C7: in every committed state each file_hash with a live row has exactly
\* one original row, and every reference row with that hash points through
\* original_file to that original, which has the same hash and size.
C7_OneOriginalPerHash ==
  \A h \in Hashes :
    WithHash(h) # {} =>
      /\ Cardinality(Originals(h)) = 1
      /\ \A i \in WithHash(h) :
           files[i].is_reference =>
             /\ files[i].original_file \in Originals(h)
             /\ files[files[i].original_file].file_hash = files[i].file_hash
             /\ files[files[i].original_file].size = files[i].size

\* Two hashes are live, one of them with an original and a reference to it.
C7_Witness ==
  /\ \A h \in {calculate_file_hash("a"), calculate_file_hash("b")} :
       WithHash(h) # {}
  /\ \E i \in Ids : files[i].exists /\ files[i].is_reference

\* Handlers p and q served overlapping requests and nothing else ran
\* meanwhile.
Raced(p, q) ==
  /\ p # q
  /\ pc[p] = "done" /\ pc[q] = "done"
  /\ req[p].overlap = {q} /\ req[q].overlap = {p}

Committed(p) == req[p].op = "upload" /\ req[p].outcome = "201"

\* C8: of two concurrent uploads by one owner with sizes s1 and s2 and used
\* bytes U, at most one commits when U + s1 + s2 > storage_limit.
C8_NoJointOvershoot ==
  \A p, q \in Procs :
    (/\ Raced(p, q)
     /\ req[p].op = "upload" /\ req[q].op = "upload"
     /\ req[p].user = req[q].user
     /\ req[p].used0 + req[p].size + req[q].size
          > quota[req[p].user].storage_limit)
    => ~(Committed(p) /\ Committed(q))

\* Both uploads fit alone, not together; one committed, the other was
\* refused by the locked quota check.
C8_Witness ==
  \E p, q \in Procs :
    /\ Raced(p, q)
    /\ req[p].user = req[q].user
    /\ req[p].content = "a" /\ req[q].content = "b"
    /\ req[p].used0 = 0 /\ req[q].used0 = 0
    /\ Committed(p)
    /\ req[q].op = "upload" /\ req[q].outcome = "400" /\ req[q].reason = "quota"
    /\ req[q].attempt = 0 /\ ~req[q].is_duplicate

\* C9: two concurrent uploads of the same novel content by different owners
\* with room both commit; one original with reference_count = 2 and two File
\* rows exist for the hash, and each owner's used bytes grew by the size.
C9_BothRacersCommit ==
  \A p, q \in Procs :
    (/\ Raced(p, q)
     /\ req[p].op = "upload" /\ req[q].op = "upload"
     /\ req[p].content = req[q].content
     /\ req[p].user # req[q].user
     /\ validate_file(req[p].content, "text/plain") = "ok"
     /\ req[p].reason \notin {"empty", "too_large", "blocked_type"}
     /\ req[q].reason \notin {"empty", "too_large", "blocked_type"}
     /\ WithHash(calculate_file_hash(req[p].content)) \subseteq
          {req[p].newid, req[q].newid}
     /\ ~req[p].is_duplicate /\ ~req[q].is_duplicate
     /\ req[p].used0 + req[p].size <= USER_STORAGE_QUOTA
     /\ req[q].used0 + req[q].size <= USER_STORAGE_QUOTA)
    => LET h == calculate_file_hash(req[p].content) IN
       /\ Committed(p) /\ Committed(q)
       /\ Cardinality(Originals(h)) = 1
       /\ \A o \in Originals(h) : files[o].reference_count = 2
       /\ Cardinality(WithHash(h)) = 2
       /\ quota[req[p].user].total_storage_used = req[p].used0 + req[p].size
       /\ quota[req[q].user].total_storage_used = req[q].used0 + req[q].size

\* C10: concurrent uploads of the same novel content persist the bytes at
\* most once for the hash: once no request is in flight the media directory
\* holds at most one file per hash, the loser of the race having left none.
C10_OneMediaFilePerHash ==
  Quiescent =>
    \A h \in Hashes : Cardinality({i \in Ids : disk[i] = h}) <= 1

\* Handler p is answered in this step (its request ends).
Answered(p) == req'[p].outcome # "none" /\ req[p].outcome = "none"

\* Handler p takes up an upload in this step.
StartsUpload(p) == pc[p] = "done" /\ req'[p] # req[p] /\ req'[p].op = "upload"

\* The upload of handler p is refused for quota in this step: by the check of
\* FileSerializer.validate or by the locked check of create.
QuotaRejection(p) ==
  \/ StartsUpload(p) /\ req'[p].reason = "quota"
  \/ /\ pc[p] \in {"r_lockquota", "n_lockquota"}
     /\ pc'[p] = "done" /\ req'[p].outcome = "400"

\* C11: an upload rejected because the quota would be exceeded leaves the
\* File rows, every reference_count, every account's used bytes and the media
\* files as they were before the upload, for novel and duplicate content.
C11_QuotaRejectionChangesNothing ==
  [][\A p \in Procs :
       QuotaRejection(p)
       => /\ UNCHANGED <<files, disk>>
          /\ \A u \in Users :
               quota'[u].total_storage_used = quota[u].total_storage_used
          /\ req[p].newid # 0 => disk'[req[p].newid] = NoHash]_vars

ValidationReasons == {"empty", "too_large", "blocked_type"}

\* C12: an upload is rejected by validation exactly when its size is 0, its
\* size is above MAX_FILE_SIZE (exactly MAX_FILE_SIZE passes) or its MIME type
\* is blocked; the rejection is answered 400 before the hash lookup and the
\* quota check and changes no File row, media file or quota account.
C12_ValidationRejectsExactly ==
  [][\A p \in Procs :
       StartsUpload(p) =>
         LET r == req'[p] IN
         /\ (r.reason \in ValidationReasons)
              <=> (\/ r.size = 0
                   \/ r.size > MAX_FILE_SIZE
                   \/ r.file_type \in BLOCKED_MIME_TYPES)
         /\ (r.reason \in ValidationReasons)
              => /\ r.outcome = "400" /\ pc'[p] = "done"
                 /\ ~r.is_duplicate
                 /\ UNCHANGED <<files, quota, disk, nextId>>]_vars

\* A file of exactly MAX_FILE_SIZE was stored and one a byte larger refused.
C12_Witness ==
  \E p, q \in Procs :
    /\ req[p].content = "max" /\ Committed(p)
    /\ quota[req[p].user].total_storage_used = MAX_FILE_SIZE
    /\ req[q].op = "upload" /\ req[q].reason = "too_large"
    /\ req[q].outcome = "400"

\* C13: a successful delete by its owner of a row whose content has another
\* live row leaves the original row and its media file in place and lowers
\* the original's reference_count by exactly 1, whether the deleted row is
\* a reference or the original.
C13_SharedContentSurvivesDelete ==
  [][\A p \in Procs :
       LET f == req[p].fid
           h == files[f].file_hash
       IN (/\ pc[p] = "d_commit" /\ pc'[p] = "done"
           /\ req'[p].outcome = "204"
           /\ req[p].owner = req[p].user
           /\ files[f].exists
           /\ WithHash(h) \ {f} # {})
          => \E o \in Originals(h) :
               /\ files'[o].exists /\ ~files'[o].is_reference
               /\ disk'[o] = h
               /\ files'[o].reference_count = files[o].reference_count - 1]_vars

\* Handler p commits an upload in this step.
CommitsUpload(p) ==
  pc[p] \in {"r_commit", "n_commit"} /\ pc'[p] = "done" /\ req'[p].outcome = "201"

\* C14: the upload that follows n successful uploads of one content (the
\* state holding n rows and one original with reference_count = n, or no row
\* when n = 0) adds one row, leaves exactly one original, now with
\* reference_count = n + 1, is the original when n = 0 and a reference to it
\* otherwise, and adds exactly the size to its uploader's used bytes.
C14_SuccessiveUploadsShareOneOriginal ==
  [][\A p \in Procs :
       LET h == calculate_file_hash(req[p].content)
           u == req[p].user
           n == Cardinality(WithHash(h))
           id == IF pc[p] = "r_commit" THEN nextId ELSE req[p].newid
           rows == {i \in Ids : files'[i].exists /\ files'[i].file_hash = h}
           originals == {i \in rows : ~files'[i].is_reference}
       IN (/\ CommitsUpload(p)
           /\ \/ n = 0
              \/ /\ Cardinality(Originals(h)) = 1
                 /\ \A o \in Originals(h) : files[o].reference_count = n)
          => /\ ~files[id].exists
             /\ rows = WithHash(h) \cup {id}
             /\ Cardinality(originals) = 1
             /\ \A o \in originals : files'[o].reference_count = n + 1
             /\ files'[id].is_reference = (n > 0)
             /\ n > 0 => files'[id].original_file \in originals
             /\ quota'[u].total_storage_used
                  = quota[u].total_storage_used + FileSize(req[p].content)
             /\ \A v \in Users \ {u} : quota'[v] = quota[v]]_vars

\* Three uploads of one content: one original counted 3 and two references.
C14_Witness ==
  LET h == calculate_file_hash("a") IN
  /\ Cardinality(WithHash(h)) = 3
  /\ \E o \in Originals(h) :
       files[o].reference_count = 3 /\ Cardinality(References(o)) = 2
  /\ quota["u1"].total_storage_used + quota["u2"].total_storage_used
       = 3 * FileSize("a")

\* C15: an upload of content whose original exists is admitted only if the
\* uploader's used bytes plus the full size fit the limit and adds the full
\* size to the uploader's account; no other account changes.
C15_DuplicateChargedInFull ==
  [][\A p \in Procs :
       LET u == req[p].user
           s == FileSize(req[p].content)
       IN (pc[p] = "r_commit" /\ pc'[p] = "done" /\ req'[p].outcome = "201")
          => /\ quota[u].total_storage_used + s <= quota[u].storage_limit
             /\ quota'[u].total_storage_used = quota[u].total_storage_used + s
             /\ \A v \in Users \ {u} : quota'[v] = quota[v]]_vars

\* u2 holds a reference to u1's original and each account carries the size.
C15_Witness ==
  \E o, i \in Ids :
    /\ files[o].exists /\ ~files[o].is_reference /\ files[o].user_id = "u1"
    /\ i \in References(o) /\ files[i].user_id = "u2"
    /\ quota["u1"].total_storage_used = files[o].size
    /\ quota["u2"].total_storage_used = files[i].size
    /\ files[i].size = FileSize("b")

\* C16: an upload that passes validation and overlaps no other request is
\* accepted if and only if used + size <= limit; when accepted (the exact fit
\* included) the used bytes become used + size.
C16_AcceptedIffFits ==
  [][\A p \in Procs :
       LET r == req'[p]
           q == quota'[r.user]
       IN (/\ Answered(p) /\ r.op = "upload"
           /\ r.overlap = {}
           /\ r.reason \notin ValidationReasons)
          => /\ (r.outcome = "201") <=> (r.used0 + r.size <= q.storage_limit)
             /\ r.outcome = "201" => q.total_storage_used = r.used0 + r.size]_vars

\* An exact fit was accepted and the next upload of that owner refused.
C16_Witness ==
  \E p, q \in Procs :
    /\ Committed(p) /\ req[p].overlap = {}
    /\ req[p].used0 > 0
    /\ req[p].used0 + req[p].size = USER_STORAGE_QUOTA
    /\ req[q].op = "upload" /\ req[q].user = req[p].user
    /\ req[q].overlap = {} /\ req[q].used0 = USER_STORAGE_QUOTA
    /\ req[q].outcome = "400" /\ req[q].reason = "quota"

\* C17: a successful delete by its owner, overlapping no other request, of
\* the only live row of its content lowers the owner's used bytes by exactly
\* the size and removes the row, the original and every media file of the
\* content (so the freed quota is available to the next upload).
C17_LastRecordDeleteFreesQuota ==
  [][\A p \in Procs :
       LET f == req[p].fid
           u == req[p].user
           h == files[f].file_hash
       IN (/\ pc[p] = "d_commit" /\ pc'[p] = "done"
           /\ req'[p].outcome = "204"
           /\ req'[p].overlap = {}
           /\ req[p].owner = u
           /\ files[f].exists
           /\ WithHash(h) = {f})
          => /\ quota'[u].total_storage_used = req[p].used0 - req[p].size
             /\ \A i \in Ids : ~(files'[i].exists /\ files'[i].file_hash = h)
             /\ \A i \in Ids : disk'[i] # h]_vars

\* Handler p is answered a read request in this step.
AnswersRead(p) ==
  /\ pc[p] = "done" /\ req'[p] # req[p]
  /\ req'[p].op \in {"list", "retrieve", "download"}

\* C18: list for owner A returns only rows whose user_id is A, and retrieve
\* or download of the id of a row of another owner answers 404 and carries no
\* row's fields or bytes.
C18_ReadsStayWithinOwner ==
  [][\A p \in Procs :
       AnswersRead(p) =>
         LET r == req'[p] IN
         /\ r.op = "list" =>
              \A i \in r.seen : files[i].exists /\ files[i].user_id = r.user
         /\ (/\ r.op \in {"retrieve", "download"}
             /\ files[r.fid].exists
             /\ files[r.fid].user_id # r.user)
            => (r.outcome = "404" /\ r.seen = {})]_vars

\* A list that left another owner's rows out, and a retrieve or download of
\* another owner's id that was answered 404.
C18_Witness ==
  \E p, q \in Procs :
    /\ req[p].op = "list" /\ req[p].seen # {}
    /\ \E i \in Ids : files[i].exists /\ files[i].user_id # req[p].user
    /\ req[q].op \in {"retrieve", "download"} /\ req[q].outcome = "404"
    /\ files[req[q].fid].exists /\ files[req[q].fid].user_id # req[q].user

\* C19: for an owner A and an id x of a row of another owner, retrieve,
\* download and delete of x answer A as they do in the state that differs
\* only in that x does not exist, where destroy finds no row.
C19_ForeignIdLooksUnknown ==
  \A A \in Users, x \in Ids :
    (files[x].exists /\ files[x].user_id # A) =>
      LET without == [files EXCEPT ![x] = NoFile] IN
      /\ retrieve(files, A, x) = retrieve(without, A, x)
      /\ download(files, disk, A, x) = download(without, disk, A, x)
      /\ ~DestroyFinds(x, A)

\* C20: an upload refused for quota is answered 429, unlike the 400 of the
\* validation failures (empty, too large, blocked type).
C20_QuotaRejectionIs429 ==
  \A p \in Procs :
    req[p].op = "upload" =>
      /\ req[p].reason = "quota" => req[p].outcome = "429"
      /\ req[p].reason \in ValidationReasons => req[p].outcome = "400"


(* ------------------------- claims: rate limiting ----------------------- *)
\* Handlers between the counter read and the limit check of key k, and the
\* requests of k answered 429 so far.
Checking(k) ==
  {p \in Procs : pc[p] = "rl_check" /\ <<req[p].user, req[p].time_window>> = k}

Refused(k) == tally[k].asked - tally[k].admitted - Cardinality(Checking(k))

AtMost(a, b) == IF a <= b THEN a ELSE b

\* Step of p from the limit check to its answer.
AnswersRated(p) == pc[p] = "rl_check" /\ pc'[p] = "done"

\* C21: when the requests of a user within one time window come one after
\* another, the first RATE_LIMIT_CALLS of them are admitted to the method and
\* every further one is answered 429, the method is not called and the
\* window's counter is not incremented.
C21_FirstCallsAdmittedRestRefused ==
  [][ /\ \A k \in Keys :
           ~tally'[k].raced =>
             tally'[k].admitted
               = AtMost(tally'[k].asked - Cardinality(Checking(k)'),
                        RATE_LIMIT_CALLS)
      /\ \A p \in Procs :
           LET k == <<req[p].user, req[p].time_window>> IN
           AnswersRated(p) /\ ~tally[k].raced =>
             IF tally[k].admitted >= RATE_LIMIT_CALLS
             THEN /\ req'[p].outcome = "429"
                  /\ cache' = cache
                  /\ tally'[k].admitted = tally[k].admitted
             ELSE /\ req'[p].outcome = method_func(req[p]).outcome
                  /\ cache_get(cache', cache_key(k[1], k[2]), now)
                       = tally[k].admitted + 1
    ]_vars

C21_Witness ==
  \E k \in Keys, p \in Procs :
    /\ ~tally[k].raced
    /\ tally[k].asked > RATE_LIMIT_CALLS
    /\ tally[k].admitted = RATE_LIMIT_CALLS
    /\ Checking(k) = {}
    /\ pc[p] = "done"
    /\ req[p].outcome = "429"

\* C22: the counters are per user: a request of one user changes no counter
\* of another user, and a user's first request in a window is admitted even
\* when another user has used up the limit of that window.
C22_CountersArePerUser ==
  [][ \A p \in Procs :
        LET u == req[p].user
            w == req[p].time_window
        IN
        AnswersRated(p) =>
          /\ \A k \in Keys : k[1] # u => cache'[k] = cache[k]
          /\ (/\ tally[<<u, w>>].asked = 1
              /\ \E a \in Users \ {u} :
                   /\ cache_get(cache, cache_key(a, w), now) >= RATE_LIMIT_CALLS
                   /\ Refused(<<a, w>>) > 0)
             => req'[p].outcome # "429"
    ]_vars

C22_Witness ==
  \E p \in Procs, w \in Windows :
    /\ pc[p] = "done"
    /\ req[p].outcome = "200"
    /\ Refused(<<"u1", w>>) > 0
    /\ tally[<<"u1", w>>].admitted = RATE_LIMIT_CALLS
    /\ tally[<<"u2", w>>].asked = 1
    /\ tally[<<"u2", w>>].admitted = 1

\* C23: a user who was refused in time window w is admitted again with the
\* first request of a later window: the count of w is not carried over.
C23_LaterWindowStartsAfresh ==
  [][ \A p \in Procs :
        LET u == req[p].user
            w == req[p].time_window
        IN
        (/\ AnswersRated(p)
         /\ tally[<<u, w>>].asked = 1
         /\ \E v \in Windows : v < w /\ Refused(<<u, v>>) > 0)
        => /\ req[p].request_count = 0
           /\ req'[p].outcome # "429"
    ]_vars

C23_Witness ==
  \E u \in Users, v, w \in Windows :
    /\ v < w
    /\ Refused(<<u, v>>) > 0
    /\ tally[<<u, w>>].asked = 1
    /\ tally[<<u, w>>].admitted = 1

(* ---------------------- claims: download and delete -------------------- *)
\* The row a download of f is served from: the original of a reference.
ServedFrom(f) ==
  IF files[f].is_reference /\ files[f].original_file # 0
  THEN files[f].original_file ELSE f

\* C24: a download of a record whose original row exists while its physical
\* file is missing is answered 404 and changes nothing: no row, count, usage
\* or media file is created, removed or changed.
C24_MissingContentIsNotFound ==
  [][\A p \in Procs :
       (/\ AnswersRead(p)
        /\ req'[p].op = "download"
        /\ req'[p].fid \in get_queryset(files, req'[p].user)
        /\ files[ServedFrom(req'[p].fid)].exists
        /\ disk[ServedFrom(req'[p].fid)] = NoHash)
       => /\ req'[p].outcome = "404"
          /\ req'[p].seen = {}
          /\ files' = files /\ quota' = quota /\ disk' = disk]_vars

\* A download answered 404 for a row that is there without its bytes.
C24_Witness ==
  \E p \in Procs :
    /\ req[p].op = "download"
    /\ req[p].outcome = "404"
    /\ req[p].reason = "not_on_storage"
    /\ files[ServedFrom(req[p].fid)].exists
    /\ disk[ServedFrom(req[p].fid)] = NoHash

\* Used bytes after an upload of up bytes and a delete of del bytes applied to
\* U used bytes one after the other, in either order.
SerialUsed(U, up, del) ==
  {NewStorage(U + up, -del), NewStorage(U, -del) + up}

Deleted(p) == req[p].op = "delete" /\ req[p].outcome = "204"

\* C25: after a delete that ran concurrently with an upload or with a second
\* delete of the same user, the user's used bytes are those of one of the
\* serial orders of the two requests: no increment or decrement is lost.
C25_UsageUpdatesSerialize ==
  \A p, q \in Procs :
    (/\ Raced(p, q)
     /\ Deleted(p)
     /\ req[p].owner = req[p].user
     /\ req[q].user = req[p].user
     /\ Deleted(q) => req[q].owner = req[q].user)
    => LET used == quota[req[p].user].total_storage_used IN
       /\ Committed(q) =>
            used \in SerialUsed(req[p].used0, req[q].size, req[p].size)
       /\ Deleted(q) =>
            used = NewStorage(NewStorage(req[p].used0, -req[p].size),
                              -req[q].size)

\* What the committed request of p adds to the reference_count of original o:
\* an upload that created o or became a reference to it, a delete of a
\* reference to o or of the record o itself.
CountDelta(p, o) ==
  IF /\ Committed(p)
     /\ \/ req[p].reason = "reference" /\ req[p].original_file = o
        \/ req[p].reason = "original" /\ req[p].newid = o
  THEN 1
  ELSE IF /\ Deleted(p)
          /\ \/ req[p].kind = "ref" /\ req[p].original_file = o
             \/ req[p].kind \in {"dec", "del"} /\ req[p].fid = o
  THEN -1
  ELSE 0

\* C26: after concurrent uploads of stored content and deletes that touch the
\* same original and found the same reference_count on it, its count is the
\* count they found plus the committed uploads minus the committed deletes;
\* it is removed only at zero. Compared once both have ended and before any
\* further request.
C26_CountUpdatesNotLost ==
  \A p, q \in Procs, o \in Ids :
    (/\ Raced(p, q)
     /\ \A x \in Procs \ {p, q} : req[x].op = "none"
     /\ CountDelta(p, o) # 0 /\ CountDelta(q, o) # 0
     /\ req[p].count0 = req[q].count0)
    => LET n == req[p].count0 + CountDelta(p, o) + CountDelta(q, o) IN
       IF files[o].exists THEN files[o].reference_count = n ELSE n <= 0

\* An upload that became a reference and a delete, concurrent, on one original
\* that is still there.
C26_Witness ==
  \E p, q \in Procs, o \in Ids :
    /\ Raced(p, q)
    /\ CountDelta(p, o) = 1
    /\ CountDelta(q, o) = -1
    /\ req[p].count0 = req[q].count0
    /\ files[o].exists

\* Step in which the delete served by p is answered, other than by the abort
\* of a deadlock.
AnswersDelete(p) ==
  /\ req[p].op = "delete"
  /\ pc[p] # "done" /\ pc'[p] = "done"
  /\ ~Deadlocked(p)

\* C27: the delete of a user's record whose original has reference_count 0 (or
\* is missing) succeeds: the record is removed, the answer is 204 and the count is
\* not taken below 0.
C27_DeleteAtZeroCountSucceeds ==
  [][\A p \in Procs :
       LET f == req[p].fid
           o == ServedFrom(f)
       IN
       (/\ AnswersDelete(p)
        /\ files[f].exists
        /\ files[f].user_id = req[p].user
        /\ ~files[o].exists \/ files[o].reference_count = 0)
       => /\ req'[p].outcome = "204"
          /\ ~files'[f].exists
          /\ files'[o].reference_count >= 0]_vars

\* C28: a delete answered 204 for id f removes no record other than f, and it
\* does not remove an original that another record still refers to.
C28_DeleteRemovesOnlyItsRecord ==
  [][\A p \in Procs :
       LET f == req[p].fid IN
       (AnswersDelete(p) /\ req'[p].outcome = "204")
       => /\ \A i \in Ids \ {f} : files[i].exists => files'[i].exists
          /\ \A o \in Ids :
               (files[o].exists /\ ~files'[o].exists)
               => References(o) \ {f} = {}]_vars

\* The transaction of the upload served by p ends in this step without a
\* commit: an error answer, or the rollback before the fallback.
UploadRolledBack(p) ==
  /\ req[p].op = "upload"
  /\ pc[p] # "done"
  /\ \/ pc'[p] = "done" /\ req'[p].outcome # "201"
     \/ pc'[p] = "f_lockorig"

\* C29: the usage update, the count update and the insert of an upload are
\* one unit: when its transaction ends without a commit no row, count or
\* usage has changed and the bytes it wrote to the media directory are gone.
C29_FailedUploadLeavesNothing ==
  [][\A p \in Procs :
       UploadRolledBack(p)
       => /\ files' = files
          /\ quota' = quota
          /\ req[p].newid # 0 => disk'[req[p].newid] = NoHash]_vars

\* C30: the removal of the record, the count update with the removal of the
\* original and of its media file, and the usage update of a delete are one
\* unit: after a delete that failed, the row it was about is there with its
\* media file, as before.
C30_FailedDeleteLeavesContent ==
  \A p \in Procs :
    LET f == req[p].fid IN
    (/\ req[p].op = "delete"
     /\ pc[p] = "done"
     /\ req[p].outcome \notin {"204", "404"}
     /\ files[f].exists
     /\ ~files[f].is_reference
     /\ files[f].file)
    => disk[f] = files[f].file_hash

(* ------------------- the retry loop of a novel upload ------------------ *)
\* The locals of an upload of novel content c by u that is in the loop
\* `for attempt in range(max_retries)` at attempt n: its earlier attempts lost
\* the insert race and then found the winner's row deleted again.
InRetry(u, c, n) ==
  [NoReq EXCEPT !.op = "upload", !.user = u, !.content = c,
                !.file_type = "text/plain", !.size = FileSize(c),
                !.attempt = n]

\* Handler 1 is idle with one request to serve, or is inside the retry loop of
\* an upload at any attempt; handler 2 serves two requests.
InitRetry ==
  /\ \E s \in Stores, r \in {NoReq} \cup {InRetry("u1", "a", n) :
                                           n \in 0 .. max_retries - 1} :
       /\ files = s.files
       /\ quota = IF r = NoReq THEN s.quota ELSE get_or_create(s.quota, "u1")
       /\ disk = s.disk
       /\ nextId = s.nextId
       /\ req = [p \in Procs |-> IF p = 1 THEN r ELSE NoReq]
       /\ pc = [p \in Procs |-> IF p = 1 /\ r # NoReq THEN "n_lockquota"
                                ELSE "done"]
       /\ budget = [p \in Procs |-> IF p # 1 THEN 2
                                    ELSE IF r = NoReq THEN 1 ELSE 0]
  /\ rowLock = [i \in Ids |-> 0]
  /\ quotaLock = [u \in Users |-> 0]
  /\ hashLock = [h \in Hashes |-> 0]
  /\ LimiterIdle

\* The steps of a request that has been started: its worker thread goes on
\* with it whenever the database lets it.
Continue(p) ==
  \/ RefLockOriginal(p)
  \/ RefLockQuota(p)
  \/ RefCommit(p)
  \/ NewLockQuota(p)
  \/ NewInsert(p)
  \/ NewInsertResume(p)
  \/ NewCommit(p)
  \/ FallbackLockOriginal(p)
  \/ DeleteLock(p)
  \/ DeleteRef(p)
  \/ DeleteOrig(p)
  \/ DeleteCascade(p)
  \/ DeleteUsage(p)
  \/ DeleteCommit(p)
  \/ DeadlockAbort(p)

\* Every started request is scheduled again and again (one worker thread per
\* request); nothing forces a client to send a request.
SpecRetry ==
  InitRetry /\ [][Next]_vars /\ \A p \in Procs : WF_vars(Continue(p))

\* The model has no identifier left for a further row or media file.
IdsUsedUp == nextId > MaxFiles

UploadEnded(p) == req[p].op = "upload" /\ ~Active(p) /\ req[p].outcome # "none"

get_storage_stats(qt, u) ==
  LET q == get_or_create(qt, u)[u] IN
  [total_storage_used |-> q.total_storage_used,
   storage_limit |-> q.storage_limit,
   original_storage |-> SumSizes(OwnedBy(u))]

\* FileViewSet.storage_stats, served in one step.
StorageStats(p) ==
  /\ pc[p] = "done"
  /\ budget[p] # 0
  /\ budget' = Spend(p)
  /\ UNCHANGED limiter
  /\ \E u \in Users :
       LET stats == get_storage_stats(quota, u) IN
       /\ quota' = get_or_create(quota, u)
       /\ req' = Begin(p, [NoReq EXCEPT !.op = "storage_stats", !.user = u,
                                        !.new_storage = stats.total_storage_used,
                                        !.limit = stats.storage_limit,
                                        !.outcome = "200", !.reason = "found"])
  /\ UNCHANGED <<files, disk, nextId, rowLock, quotaLock, hashLock, pc>>

NextWithStats ==
  \/ NextWithReads
  \/ \E p \in Procs : StorageStats(p)

SpecStats == InitOnce /\ [][NextWithStats]_vars

\* Handler p is answered a storage_stats request in this step.
AnswersStats(p) ==
  /\ pc[p] = "done" /\ req'[p] # req[p]
  /\ req'[p].op = "storage_stats"

\* C32: storage_stats is a pure read: the step that serves it leaves the set
\* of accounts, every account's used bytes and limit and all File rows as
\* they were, also for an owner without an account; an account comes into
\* existence only in a step that takes up an upload of its owner.
C32_StatsIsPureRead ==
  [][/\ \A p \in Procs :
          AnswersStats(p) => (quota' = quota /\ files' = files)
     /\ \A u \in Users :
          (~quota[u].exists /\ quota'[u].exists) =>
            \E p \in Procs : StartsUpload(p) /\ req'[p].user = u]_vars

(* ---------------------- content missing from storage ------------------- *)
\* u1 uploaded "a"; the media file has since been lost from the storage
\* (tests.py test_delete_without_file removes it by hand).
StoreMissing ==
  [files |-> StoreOriginal.files, quota |-> StoreOriginal.quota,
   disk |-> EmptyDisk, nextId |-> StoreOriginal.nextId]

InitMissing ==
  /\ \E s \in Stores \cup {StoreMissing} :
       /\ files = s.files
       /\ quota = s.quota
       /\ disk = s.disk
       /\ nextId = s.nextId
  /\ budget = [p \in Procs |-> 1]
  /\ rowLock = [i \in Ids |-> 0]
  /\ quotaLock = [u \in Users |-> 0]
  /\ hashLock = [h \in Hashes |-> 0]
  /\ pc = [p \in Procs |-> "done"]
  /\ req = [p \in Procs |-> NoReq]
  /\ LimiterIdle

SpecMissing == InitMissing /\ [][Next]_vars

\* C33: a delete of the only live row of its content (the last reference to
\* the Blob) that finds the media file missing (logged as a warning) still
\* ends with 204: the row (the record and the Blob row) is gone, and when the
\* requester is the owner and no other request overlapped, the owner's used
\* bytes are lowered by the size of the record (not below 0).
C33_DeleteWithoutMediaSucceeds ==
  [][\A p \in Procs :
       (/\ req[p].op = "delete" /\ req[p].warned
        /\ Active(p) /\ pc'[p] = "done"
        /\ WithHash(files[req[p].fid].file_hash) = {req[p].fid})
       => LET f == req[p].fid
              u == req[p].user
          IN /\ req'[p].outcome = "204"
             /\ ~files'[f].exists
             /\ \A i \in Ids : ~(files'[i].exists /\ files'[i].original_file = f)
             /\ (req'[p].overlap = {} /\ req[p].owner = u) =>
                  quota'[u].total_storage_used =
                    IF req[p].used0 >= req[p].size
                    THEN req[p].used0 - req[p].size ELSE 0]_vars

\* The owner's delete of a record whose media file was missing has ended 204
\* with no other request in its way.
C33_Witness ==
  \E p \in Procs :
    /\ req[p].op = "delete" /\ req[p].warned /\ ~Active(p)
    /\ req[p].outcome = "204"
    /\ req[p].owner = req[p].user
    /\ req[p].overlap = {}
    /\ req[p].used0 >= req[p].size

\* Handler p takes a step of its request (the bookkeeping of the overlapping
\* handlers, which every start of a request updates, is not a step of p).
Moves(p) ==
  \/ pc'[p] # pc[p]
  \/ [req'[p] EXCEPT !.overlap = {}] # [req[p] EXCEPT !.overlap = {}]

\* The user whose request handler p serves in this step.
Requester(p) == IF pc[p] = "done" THEN req'[p].user ELSE req[p].user

\* C34: every step of an upload or a delete requested by owner A leaves the
\* account of every other owner B as it was (existence, used bytes, limit),
\* also when A and B hold rows of the same content.
C34_OtherAccountsUntouched ==
  [][\A p \in Procs, B \in Users :
       (/\ Moves(p)
        /\ (IF pc[p] = "done" THEN req'[p].op ELSE req[p].op)
             \in {"upload", "delete"}
        /\ Requester(p) # B)
       => quota'[B] = quota[B]]_vars

\* An upload has been committed for A while another owner B, with an account
\* in use, holds a row of the same content, and a delete has been committed.
C34_Witness ==
  \E p, q \in Procs :
    /\ req[p].op = "upload" /\ req[p].outcome = "201"
    /\ \E i \in Ids :
         /\ files[i].exists
         /\ files[i].user_id # req[p].user
         /\ files[i].file_hash = calculate_file_hash(req[p].content)
         /\ quota[files[i].user_id].total_storage_used > 0
    /\ req[q].op = "delete" /\ req[q].outcome = "204"

(* ------------------- a reference with its own file type ---------------- *)
\* u1 uploaded "a" as text/plain, then u2 uploaded the same bytes under
\* another name as application/pdf: the reference row keeps the name and the
\* type of its own upload.
StoreRenamed ==
  [files |-> [StoreShared.files EXCEPT ![2].file_type = "application/pdf"],
   quota |-> StoreShared.quota, disk |-> StoreShared.disk,
   nextId |-> StoreShared.nextId]

InitRenamed ==
  /\ \E s \in Stores \cup {StoreRenamed} :
       /\ files = s.files
       /\ quota = s.quota
       /\ disk = s.disk
       /\ nextId = s.nextId
  /\ budget = [p \in Procs |-> 1]
  /\ rowLock = [i \in Ids |-> 0]
  /\ quotaLock = [u \in Users |-> 0]
  /\ hashLock = [h \in Hashes |-> 0]
  /\ pc = [p \in Procs |-> "done"]
  /\ req = [p \in Procs |-> NoReq]
  /\ LimiterIdle

SpecRenamed == InitRenamed /\ [][NextWithReads]_vars

\* C35: a download of a row the requester holds that is answered 200 carries
\* the bytes of the row's content and the MIME type (and filename) stored on
\* the requested row itself, also when the row is a reference whose type
\* differs from the type of its original.
C35_DownloadCarriesOwnMetadata ==
  [][\A p \in Procs :
       (/\ AnswersRead(p)
        /\ req'[p].op = "download"
        /\ req'[p].outcome = "200")
       => LET f == req'[p].fid IN
          /\ \A i \in req'[p].seen : disk[i] = files[f].file_hash
          /\ req'[p].file_type = files[f].file_type]_vars

\* C36: an upload within quota whose dedup lookup found an original ends
\* Committed (201) also when that original has been removed by a concurrent
\* delete before the upload created its reference; it never ends in an
\* internal error for that reason.
C36_UploadSurvivesVanishedOriginal ==
  \A p \in Procs :
    (/\ UploadEnded(p)
     /\ req[p].is_duplicate
     /\ ~files[req[p].original_file].exists
     /\ req[p].reason # "quota")
    => /\ req[p].outcome = "201"
       /\ req[p].reason # "original_gone"

\* C37: of two concurrent deletes of one file id by its owner, exactly one is
\* answered 204 and the other 404: the original's reference_count is lowered
\* once and the owner's used bytes are lowered by the size once.
C37_OneOfTwoDeletesSucceeds ==
  \A p, q \in Procs :
    (/\ Raced(p, q)
     /\ \A x \in Procs \ {p, q} : req[x].op = "none"
     /\ req[p].op = "delete" /\ req[q].op = "delete"
     /\ req[p].fid = req[q].fid
     /\ req[p].user = req[q].user
     /\ Deleted(p) /\ req[p].owner = req[p].user
     /\ req[p].used0 >= req[p].size)
    => /\ req[q].outcome = "404"
       /\ quota[req[p].user].total_storage_used = req[p].used0 - req[p].size
       /\ \A o \in Ids :
            (CountDelta(p, o) # 0 /\ files[o].exists) =>
              files[o].reference_count = req[p].count0 - 1

\* C38: no interleaving of uploads and deletes reaches a deadlock on the row
\* locks (File rows, the unique slot of a hash, quota rows): no handler ever
\* waits for a lock on a cycle of the waits-for graph.
C38_NoDeadlock ==
  \A p \in Procs : ~Deadlocked(p)

\* C39: for every user and every time window, the number of requests
\* admitted to the method never exceeds RATE_LIMIT_CALLS, whatever the
\* interleaving of the user's concurrent requests.
C39_AdmittedWithinLimit ==
  \A k \in Keys : tally[k].admitted <= RATE_LIMIT_CALLS

====
